---- MODULE Spec2Model ----
(***************************************************************************)
(* Model of the USIM file system emulator: the APDU parser, the MF/DF/EF   *)
(* tree with its loader, the card context, the SELECT / READ BINARY /      *)
(* READ RECORD handlers behind the INS router, and the TCP transport that  *)
(* serves hex lines from its clients on one shared card context.           *)
(*                                                                         *)
(* Nodes are numbered in the order the loader creates them (1 is the       *)
(* first node created).  A python Optional is a sequence of length 0 or 1, *)
(* a node reference that is None is 0, a bytes value is a sequence of      *)
(* integers in 0..255.                                                     *)
(***************************************************************************)
EXTENDS Integers, Sequences, FiniteSets, TLC

VARIABLES
    phase,         \* "load", "loaded", "failed", "run", "add" or "codec"
    fid,           \* fid[n]      FileNode.fid
    kind,          \* kind[n]     class of the node: "MF", "DF", "TEF", "LEF"
    parent,        \* parent[n]   FileNode.parent (0 = None)
    children,      \* children[n] DF.children, in dict insertion order
    content,       \* content[n]  TransparentEF.content
    records,       \* records[n]  LinearFixedEF.records
    stack,         \* the nodes whose _build_node_tree call is open
    mf_root,       \* CardContext.mf_root (0 before the context exists)
    current_df,    \* CardContext.current_df
    current_file,  \* CardContext.current_file
    apdu,          \* <<a>> for the Apdu a of the dispatch call, else <<>>
    response,      \* what the dispatch call returned
    raised,        \* exception that escaped the last call ("" if none)
    before,        \* <<current_df, current_file>> when dispatch was called
    raw,           \* parser input: the raw command bytes
    sent,          \* <<a>> when raw is the encoding of the Apdu a, else <<>>
    parsed,        \* <<result>> of parse_apdu(raw), <<>> before the call
    call,          \* the DF.find call: <<container, fid, result>>, else <<>>
    buffer,        \* buffer[w]   the buffer of _handle_client of worker w
    pc,            \* pc[w]       where worker w is: "loop", "send", "closed",
                   \*             or before a write of select_node, reset_to_mf
    taken,         \* taken[w]    the line worker w is handling, stripped
    reply,         \* reply[w]    the response worker w is about to send
    asked,         \* asked[w]    non-blank lines received on connection w
    nsent,         \* nsent[w]    response lines worker w has sent
    wire,          \* <<w, line>> for the last line sent, on connection w
    selected,      \* selected[w] node of the last successful SELECT of w
    who            \* the worker of the last successful SELECT (0 if none)

vars == <<phase, fid, kind, parent, children, content, records, stack,
          mf_root, current_df, current_file, apdu, response, raised, before,
          raw, sent, parsed, call,
          buffer, pc, taken, reply, asked, nsent, wire, selected, who>>

treeVars == <<fid, kind, parent, children, content, records>>
ctxVars == <<mf_root, current_df, current_file>>
callVars == <<apdu, response, raised, before>>
codecVars == <<raw, sent, parsed>>
netVars ==
    <<buffer, pc, taken, reply, asked, nsent, wire, selected, who>>

-----------------------------------------------------------------------------
(* Bounds *)

MaxNodes == 4       \* nodes of a profile in the card specification
MaxFindNodes == 6   \* nodes of a profile in the lookup specification
MaxOrderNodes == 5  \* nodes of a profile in the lookup order specification
MaxByte == 2        \* byte values 0..MaxByte in the parser specification
MaxRawLen == 7      \* longest raw buffer in the parser specification
MaxAddNodes == 3    \* nodes in the tree construction specification
MaxServeNodes == 3  \* nodes of a profile in the transport specifications
MaxLines == 2       \* non-blank lines a connection receives

-----------------------------------------------------------------------------
(* Status words *)

SW_SUCCESS == <<144, 0>>
SW_WRONG_LENGTH == <<103, 0>>
SW_INS_NOT_SUPPORTED == <<109, 0>>
SW_CLA_NOT_SUPPORTED == <<110, 0>>
SW_FILE_NOT_FOUND == <<106, 130>>
SW_RECORD_NOT_FOUND == <<106, 131>>
SW_WRONG_P1P2 == <<107, 0>>
SW_FUNC_NOT_SUPPORTED == <<106, 129>>
SW_COMMAND_NOT_ALLOWED == <<105, 134>>
SW_COND_NOT_SATISFIED == <<105, 133>>
SW_SECURITY_STATUS_NOT_SATISFIED == <<105, 130>>

SW_NAMES ==
    {SW_SUCCESS, SW_WRONG_LENGTH, SW_INS_NOT_SUPPORTED, SW_CLA_NOT_SUPPORTED,
     SW_FILE_NOT_FOUND, SW_RECORD_NOT_FOUND, SW_WRONG_P1P2,
     SW_FUNC_NOT_SUPPORTED, SW_COMMAND_NOT_ALLOWED, SW_COND_NOT_SATISFIED,
     SW_SECURITY_STATUS_NOT_SATISFIED}

-----------------------------------------------------------------------------
(* Byte-string helpers *)

\* python slice s[a:b] with 0 <= a, on a 1-based sequence
Slice(s, a, b) ==
    LET hi == IF b < Len(s) THEN b ELSE Len(s)
    IN  IF a >= hi THEN <<>> ELSE SubSeq(s, a + 1, hi)

\* the last two bytes of a response
Last2(s) == SubSeq(s, Len(s) - 1, Len(s))

Nodes == 1..Len(fid)

-----------------------------------------------------------------------------
(* Filesystem tree: filesystem/nodes.py *)

IsDF(n) == kind[n] \in {"MF", "DF"}

\* the fid of the MF: 3F00
MfFid == 16128

\* the fids the profiles use: 3F00, 7F10, 6F07.  The code only compares
\* fids, so what matters is which nodes share one
Fids == {MfFid, 32528, 28423}

\* keys of the children dict of container c
ChildFids(c) == {fid[children[c][i]] : i \in 1..Len(children[c])}

\* self.children[f] for a key f of the dict
ChildByFid(c, f) ==
    children[c][CHOOSE i \in 1..Len(children[c]) : fid[children[c][i]] = f]

\* FileNode.path_str walks the parent references up to None: it returns
\* when it gets there within as many steps as there are nodes, and runs out
\* of memory on a cycle
RECURSIVE reaches_none(_, _)
reaches_none(n, k) ==
    IF n = 0 THEN TRUE
    ELSE IF k = 0 THEN FALSE
    ELSE reaches_none(parent[n], k - 1)

path_str_returns(n) == reaches_none(n, Len(fid))

\* what add_child raises on a duplicate: the message is built first
DuplicateFid(c) == IF path_str_returns(c) THEN "ValueError" ELSE "MemoryError"

\* DF.add_child with the check of the duplicate after the assignment of
\* the parent
add_child_parent_first(c, n) ==
    IF fid[n] \in ChildFids(c)
    THEN /\ raised' = DuplicateFid(c)
         /\ parent' = [parent EXCEPT ![n] = c]
         /\ UNCHANGED children
    ELSE /\ raised' = ""
         /\ parent' = [parent EXCEPT ![n] = c]
         /\ children' = [children EXCEPT ![c] = Append(@, n)]

\* DF.add_child: raises ValueError on a fid that is already a key,
\* otherwise sets the parent and adds the node at the end of the dict
add_child(c, n) ==
    IF fid[n] \in ChildFids(c)
    THEN /\ raised' = DuplicateFid(c)
         /\ UNCHANGED <<parent, children>>
    ELSE /\ raised' = ""
         /\ parent' = [parent EXCEPT ![n] = c]
         /\ children' = [children EXCEPT ![c] = Append(@, n)]

RECURSIVE find(_, _)
RECURSIVE find_in_children(_, _, _)

\* the loop of DF.find over self.children.values(), from position i on
find_in_children(c, f, i) ==
    IF i > Len(children[c]) THEN 0
    ELSE LET child == children[c][i]
             hit == IF IsDF(child) THEN find(child, f) ELSE 0
         IN  IF hit # 0 THEN hit ELSE find_in_children(c, f, i + 1)

\* DF.find as a plain depth-first search: every child is compared and
\* descended into in turn, without the look at all direct children first
RECURSIVE find_child_by_child(_, _, _)
find_child_by_child(c, f, i) ==
    IF i > Len(children[c]) THEN 0
    ELSE LET child == children[c][i]
             hit == IF fid[child] = f THEN child
                    ELSE IF IsDF(child) THEN find(child, f)
                    ELSE 0
         IN  IF hit # 0 THEN hit ELSE find_child_by_child(c, f, i + 1)

find_depth_first(c, f) ==
    IF f = fid[c] THEN c
    ELSE find_child_by_child(c, f, 1)

\* DF.find going through the DF children from the last inserted to the
\* first
RECURSIVE find_from_last(_, _, _)
find_from_last(c, f, i) ==
    IF i < 1 THEN 0
    ELSE LET child == children[c][i]
             hit == IF IsDF(child) THEN find(child, f) ELSE 0
         IN  IF hit # 0 THEN hit ELSE find_from_last(c, f, i - 1)

find_last_inserted_first(c, f) ==
    IF f = fid[c] THEN c
    ELSE IF f \in ChildFids(c) THEN ChildByFid(c, f)
    ELSE find_from_last(c, f, Len(children[c]))

\* DF.find: the DF itself, then a direct child, then the DF children in order
find(c, f) ==
    IF f = fid[c] THEN c
    ELSE IF f \in ChildFids(c) THEN ChildByFid(c, f)
    ELSE find_in_children(c, f, 1)

\* TransparentEF.read_binary refusing a window that runs over the end
read_binary_no_overrun(n, offset, length) ==
    IF offset < 0 THEN [exc |-> "ValueError", val |-> <<>>]
    ELSE IF length < 0 THEN [exc |-> "ValueError", val |-> <<>>]
    ELSE IF offset + length > Len(content[n])
         THEN [exc |-> "IndexError", val |-> <<>>]
    ELSE [exc |-> "", val |-> Slice(content[n], offset, offset + length)]

\* TransparentEF.read_binary: [exc, val]
read_binary(n, offset, length) ==
    IF offset < 0 THEN [exc |-> "ValueError", val |-> <<>>]
    ELSE IF length < 0 THEN [exc |-> "ValueError", val |-> <<>>]
    ELSE IF offset > Len(content[n]) THEN [exc |-> "IndexError", val |-> <<>>]
    ELSE [exc |-> "", val |-> Slice(content[n], offset, offset + length)]

\* LinearFixedEF.read_record raising ValueError for a record that is not
\* there
read_record_value_error(n, record_number) ==
    IF record_number <= 0 THEN [exc |-> "IndexError", val |-> <<>>]
    ELSE IF record_number - 1 >= Len(records[n])
         THEN [exc |-> "ValueError", val |-> <<>>]
    ELSE [exc |-> "", val |-> records[n][record_number]]

\* LinearFixedEF.read_record: [exc, val]
read_record(n, record_number) ==
    IF record_number <= 0 THEN [exc |-> "IndexError", val |-> <<>>]
    ELSE IF record_number - 1 >= Len(records[n])
         THEN [exc |-> "IndexError", val |-> <<>>]
    ELSE [exc |-> "", val |-> records[n][record_number]]

-----------------------------------------------------------------------------
(* Profile loader: filesystem/loader.py.  A call of _build_node_tree is    *)
(* open from the creation of its node to its return; the open calls are    *)
(* the stack.  The profile (type, fid, content of every node) is the       *)
(* input, chosen node by node.                                             *)

\* content of the k-th node of the profile when it is a Transparent EF
ContentOf(k) == [i \in 1..((k - 1) % 4) |-> 16 * k + i]

\* records of the k-th node of the profile when it is a Linear Fixed EF
\* (record_len is 2)
RecordsOf(k) == [r \in 1..((k - 2) % 3) |-> <<16 * k + r, 255>>]

\* _build_node_tree creates the node of a spec: the root call of
\* load_profile (an MF, anything else is refused by load_profile; the
\* profiles give it the fid 3F00), or the call for the next child spec of
\* the DF whose call is innermost
BuildNode(maxNodes, kinds) ==
    /\ phase = "load"
    /\ Len(fid) < maxNodes
    /\ \E k \in kinds, f \in Fids :
        /\ IF stack = <<>> THEN Len(fid) = 0 /\ k = "MF" /\ f = MfFid
                           ELSE IsDF(stack[Len(stack)]) /\ k # "MF"
        /\ fid' = Append(fid, f)
        /\ kind' = Append(kind, k)
        /\ parent' = Append(parent, 0)
        /\ children' = Append(children, <<>>)
        /\ content' = Append(content,
                         IF k = "TEF" THEN ContentOf(Len(fid) + 1) ELSE <<>>)
        /\ records' = Append(records,
                         IF k = "LEF" THEN RecordsOf(Len(fid) + 1) ELSE <<>>)
        /\ stack' = Append(stack, Len(fid) + 1)
    /\ UNCHANGED <<phase, ctxVars, callVars, codecVars, call, netVars>>

\* the innermost _build_node_tree call returns its node: the caller adds it
\* with add_child (a ValueError ends the load), or load_profile returns the
\* root
ReturnNode ==
    /\ phase = "load"
    /\ stack # <<>>
    /\ LET n == stack[Len(stack)]
           rest == SubSeq(stack, 1, Len(stack) - 1)
       IN  /\ stack' = rest
           /\ IF rest = <<>>
              THEN /\ phase' = "loaded"
                   /\ UNCHANGED <<parent, children, raised>>
              ELSE /\ add_child(rest[Len(rest)], n)
                   /\ phase' = IF raised' = "" THEN "load" ELSE "failed"
    /\ UNCHANGED <<fid, kind, content, records, ctxVars, apdu, response,
                   before, codecVars, call, netVars>>

-----------------------------------------------------------------------------
(* Card context: card/context.py *)

\* CardContext.from_mf, called by main on the loaded root
from_mf ==
    /\ phase = "loaded"
    /\ phase' = "run"
    /\ mf_root' = 1
    /\ current_df' = 1
    /\ current_file' = 1
    /\ UNCHANGED <<treeVars, stack, callVars, codecVars, call, netVars>>

\* CardContext.select_node making every selected node the current DF
select_node_always_df(node) ==
    /\ current_file' = node
    /\ current_df' = node

\* CardContext.select_node leaving the current DF alone for every node
select_node_file_only(node) ==
    /\ current_file' = node
    /\ current_df' = current_df

\* CardContext.select_node
select_node(node) ==
    /\ current_file' = node
    /\ current_df' = IF IsDF(node) THEN node ELSE current_df

\* CardContext.reset_to_mf resetting the current file only
reset_to_mf_file_only ==
    /\ current_df' = current_df
    /\ current_file' = mf_root

\* CardContext.reset_to_mf
reset_to_mf ==
    /\ current_df' = mf_root
    /\ current_file' = mf_root

\* CardContext.find_anywhere
find_anywhere(f) == find(mf_root, f)

\* CardContext.find_under_current_df
find_under_current_df(f) == find(current_df, f)

-----------------------------------------------------------------------------
(* Apdu values: apdu/parser.py *)

\* the dataclass Apdu
Apdu(cla, ins, p1, p2, lc, data, le) ==
    [cla |-> cla, ins |-> ins, p1 |-> p1, p2 |-> p2,
     lc |-> lc, data |-> data, le |-> le]

\* an Apdu as parse_apdu builds it: lc is the number of data bytes
MkApdu(cla, ins, p1, p2, data, le) ==
    Apdu(cla, ins, p1, p2, Len(data), data, le)

\* Apdu.p1p2
p1p2(a) == a.p1 * 256 + a.p2

\* parse_apdu result: the exception raised ("" if none) and the Apdu
ParseError == [exc |-> "ApduParseError", val |-> <<>>]
Parsed(a) == [exc |-> "", val |-> a]

\* parse_apdu reading the fifth byte of a 5-byte buffer as Lc
parse_apdu_lc_first(b) ==
    IF Len(b) < 4 THEN ParseError
    ELSE IF Len(b) = 4
    THEN Parsed(Apdu(b[1], b[2], b[3], b[4], 0, <<>>, <<>>))
    ELSE LET lc == b[5]
             data_end == 5 + lc
         IN  IF data_end > Len(b) THEN ParseError
             ELSE LET data == Slice(b, 5, data_end)
                      remaining == Slice(b, data_end, Len(b))
                  IN  IF Len(remaining) = 0
                      THEN Parsed(Apdu(b[1], b[2], b[3], b[4], lc, data, <<>>))
                      ELSE IF Len(remaining) = 1
                      THEN Parsed(Apdu(b[1], b[2], b[3], b[4], lc, data,
                                       <<remaining[1]>>))
                      ELSE ParseError

\* parse_apdu taking whatever follows the data for a valid end
parse_apdu_any_tail(b) ==
    IF Len(b) < 4 THEN ParseError
    ELSE IF Len(b) = 4
    THEN Parsed(Apdu(b[1], b[2], b[3], b[4], 0, <<>>, <<>>))
    ELSE IF Len(b) = 5
    THEN Parsed(Apdu(b[1], b[2], b[3], b[4], 0, <<>>, <<b[5]>>))
    ELSE LET lc == b[5]
             data_end == 5 + lc
         IN  IF data_end > Len(b) THEN ParseError
             ELSE LET data == Slice(b, 5, data_end)
                      remaining == Slice(b, data_end, Len(b))
                  IN  IF Len(remaining) = 1
                      THEN Parsed(Apdu(b[1], b[2], b[3], b[4], lc, data,
                                       <<remaining[1]>>))
                      ELSE Parsed(Apdu(b[1], b[2], b[3], b[4], lc, data, <<>>))

\* parse_apdu
parse_apdu(b) ==
    IF Len(b) < 4 THEN ParseError
    ELSE IF Len(b) = 4
    THEN Parsed(Apdu(b[1], b[2], b[3], b[4], 0, <<>>, <<>>))
    ELSE IF Len(b) = 5
    THEN Parsed(Apdu(b[1], b[2], b[3], b[4], 0, <<>>, <<b[5]>>))
    ELSE LET lc == b[5]
             data_end == 5 + lc
         IN  IF data_end > Len(b) THEN ParseError
             ELSE LET data == Slice(b, 5, data_end)
                      remaining == Slice(b, data_end, Len(b))
                  IN  IF Len(remaining) = 0
                      THEN Parsed(Apdu(b[1], b[2], b[3], b[4], lc, data,
                                       <<>>))
                      ELSE IF Len(remaining) = 1
                      THEN Parsed(Apdu(b[1], b[2], b[3], b[4], lc, data,
                                       <<remaining[1]>>))
                      ELSE ParseError

\* the Case 1-4 encoding of an Apdu: the header, Lc and the data when there
\* is data, Le when there is one
Encode(a) ==
    <<a.cla, a.ins, a.p1, a.p2>>
    \o (IF a.data # <<>> THEN <<a.lc>> \o a.data ELSE <<>>)
    \o a.le

-----------------------------------------------------------------------------
(* Handlers: card/handlers.py.  A handler returns its response bytes, or   *)
(* an exception escapes it.                                                *)

Return(r) == response' = r /\ raised' = ""
Raise(e) == response' = <<>> /\ raised' = e

\* handle_select looking the fid up under MF first
handle_select_global_first(a) ==
    IF a.lc = 0 \/ Len(a.data) = 0
    THEN Return(SW_WRONG_LENGTH) /\ UNCHANGED <<current_df, current_file>>
    ELSE IF Len(a.data) # 2
    THEN Return(SW_FUNC_NOT_SUPPORTED) /\ UNCHANGED <<current_df, current_file>>
    ELSE LET f == a.data[1] * 256 + a.data[2]
         IN  IF f = fid[mf_root]
             THEN reset_to_mf /\ Return(SW_SUCCESS)
             ELSE LET glob == find_anywhere(f)
                      node == IF glob = 0 THEN find_under_current_df(f)
                                          ELSE glob
                  IN  IF node = 0
                      THEN /\ Return(SW_FILE_NOT_FOUND)
                           /\ UNCHANGED <<current_df, current_file>>
                      ELSE select_node(node) /\ Return(SW_SUCCESS)

\* handle_select going back to the MF when the fid is not found
handle_select_reset_on_miss(a) ==
    IF a.lc = 0 \/ Len(a.data) = 0
    THEN Return(SW_WRONG_LENGTH) /\ UNCHANGED <<current_df, current_file>>
    ELSE IF Len(a.data) # 2
    THEN Return(SW_FUNC_NOT_SUPPORTED) /\ UNCHANGED <<current_df, current_file>>
    ELSE LET f == a.data[1] * 256 + a.data[2]
         IN  IF f = fid[mf_root]
             THEN reset_to_mf /\ Return(SW_SUCCESS)
             ELSE LET rel == find_under_current_df(f)
                      node == IF rel = 0 THEN find_anywhere(f) ELSE rel
                  IN  IF node = 0
                      THEN reset_to_mf /\ Return(SW_FILE_NOT_FOUND)
                      ELSE select_node(node) /\ Return(SW_SUCCESS)

\* handle_select looking the fid up from the MF only
handle_select_from_root(a) ==
    IF a.lc = 0 \/ Len(a.data) = 0
    THEN Return(SW_WRONG_LENGTH) /\ UNCHANGED <<current_df, current_file>>
    ELSE IF Len(a.data) # 2
    THEN Return(SW_FUNC_NOT_SUPPORTED) /\ UNCHANGED <<current_df, current_file>>
    ELSE LET f == a.data[1] * 256 + a.data[2]
         IN  IF f = fid[mf_root]
             THEN reset_to_mf /\ Return(SW_SUCCESS)
             ELSE LET node == find_anywhere(f)
                  IN  IF node = 0
                      THEN /\ Return(SW_FILE_NOT_FOUND)
                           /\ UNCHANGED <<current_df, current_file>>
                      ELSE select_node(node) /\ Return(SW_SUCCESS)

\* handle_select
handle_select(a) ==
    IF a.lc = 0 \/ Len(a.data) = 0
    THEN Return(SW_WRONG_LENGTH) /\ UNCHANGED <<current_df, current_file>>
    ELSE IF Len(a.data) # 2
    THEN Return(SW_FUNC_NOT_SUPPORTED) /\ UNCHANGED <<current_df, current_file>>
    ELSE LET f == a.data[1] * 256 + a.data[2]
         IN  IF f = fid[mf_root]
             THEN reset_to_mf /\ Return(SW_SUCCESS)
             ELSE LET rel == find_under_current_df(f)
                      node == IF rel = 0 THEN find_anywhere(f) ELSE rel
                  IN  IF node = 0
                      THEN /\ Return(SW_FILE_NOT_FOUND)
                           /\ UNCHANGED <<current_df, current_file>>
                      ELSE select_node(node) /\ Return(SW_SUCCESS)

\* handle_select with the 2 data bytes of fid f, as a function of the
\* session: the pair <<current_df, current_file>> it leaves when called
\* with the pair s
SelectStep(s, f) ==
    IF f = fid[mf_root]
    THEN <<mf_root, mf_root>>
    ELSE LET rel == find(s[1], f)
             node == IF rel = 0 THEN find(mf_root, f) ELSE rel
         IN  IF node = 0
             THEN s
             ELSE <<IF IsDF(node) THEN node ELSE s[1], node>>

\* handle_read_binary going back to MF when the current file is not a
\* Transparent EF
handle_read_binary_reset(a) ==
    IF kind[current_file] # "TEF"
    THEN reset_to_mf /\ Return(SW_COMMAND_NOT_ALLOWED)
    ELSE /\ UNCHANGED <<current_df, current_file>>
         /\ IF a.le = <<>> THEN Return(SW_WRONG_LENGTH)
            ELSE LET offset == p1p2(a)
                     length == IF a.le[1] = 0 THEN 256 ELSE a.le[1]
                     r == read_binary(current_file, offset, length)
                 IN  IF r.exc # "" THEN Return(SW_WRONG_P1P2)
                     ELSE Return(r.val \o SW_SUCCESS)

\* handle_read_binary
handle_read_binary(a) ==
    /\ UNCHANGED <<current_df, current_file>>
    /\ IF kind[current_file] # "TEF" THEN Return(SW_COMMAND_NOT_ALLOWED)
       ELSE IF a.le = <<>> THEN Return(SW_WRONG_LENGTH)
       ELSE LET offset == p1p2(a)
                length == IF a.le[1] = 0 THEN 256 ELSE a.le[1]
                r == read_binary(current_file, offset, length)
            IN  IF r.exc = "IndexError" THEN Return(SW_WRONG_P1P2)
                ELSE IF r.exc = "ValueError" THEN Return(SW_WRONG_P1P2)
                ELSE IF r.exc # "" THEN Raise(r.exc)
                ELSE Return(r.val \o SW_SUCCESS)

\* handle_read_record without the check of record number 0
handle_read_record_no_zero_check(a) ==
    /\ UNCHANGED <<current_df, current_file>>
    /\ IF kind[current_file] # "LEF" THEN Return(SW_COMMAND_NOT_ALLOWED)
       ELSE IF (a.p2 % 8) # 4 THEN Return(SW_FUNC_NOT_SUPPORTED)
       ELSE LET r == read_record(current_file, a.p1)
            IN  IF r.exc = "IndexError" THEN Return(SW_RECORD_NOT_FOUND)
                ELSE IF r.exc # "" THEN Raise(r.exc)
                ELSE IF a.le = <<>> THEN Return(r.val \o SW_SUCCESS)
                ELSE LET length == IF a.le[1] = 0 THEN 256 ELSE a.le[1]
                     IN  Return(Slice(r.val, 0, length) \o SW_SUCCESS)

\* handle_read_record refusing an Le larger than the record
handle_read_record_le_exact(a) ==
    /\ UNCHANGED <<current_df, current_file>>
    /\ IF kind[current_file] # "LEF" THEN Return(SW_COMMAND_NOT_ALLOWED)
       ELSE IF (a.p2 % 8) # 4 THEN Return(SW_FUNC_NOT_SUPPORTED)
       ELSE IF a.p1 = 0 THEN Return(SW_WRONG_P1P2)
       ELSE LET r == read_record(current_file, a.p1)
            IN  IF r.exc = "IndexError" THEN Return(SW_RECORD_NOT_FOUND)
                ELSE IF r.exc # "" THEN Raise(r.exc)
                ELSE IF a.le = <<>> THEN Return(r.val \o SW_SUCCESS)
                ELSE LET length == IF a.le[1] = 0 THEN 256 ELSE a.le[1]
                     IN  IF length > Len(r.val) THEN Return(SW_WRONG_LENGTH)
                         ELSE Return(Slice(r.val, 0, length) \o SW_SUCCESS)

\* handle_read_record checking the record number before the mode
handle_read_record_p1_first(a) ==
    /\ UNCHANGED <<current_df, current_file>>
    /\ IF kind[current_file] # "LEF" THEN Return(SW_COMMAND_NOT_ALLOWED)
       ELSE IF a.p1 = 0 THEN Return(SW_WRONG_P1P2)
       ELSE IF (a.p2 % 8) # 4 THEN Return(SW_FUNC_NOT_SUPPORTED)
       ELSE LET r == read_record(current_file, a.p1)
            IN  IF r.exc = "IndexError" THEN Return(SW_RECORD_NOT_FOUND)
                ELSE IF r.exc # "" THEN Raise(r.exc)
                ELSE IF a.le = <<>> THEN Return(r.val \o SW_SUCCESS)
                ELSE LET length == IF a.le[1] = 0 THEN 256 ELSE a.le[1]
                     IN  Return(Slice(r.val, 0, length) \o SW_SUCCESS)

\* handle_read_record
handle_read_record(a) ==
    /\ UNCHANGED <<current_df, current_file>>
    /\ IF kind[current_file] # "LEF" THEN Return(SW_COMMAND_NOT_ALLOWED)
       ELSE IF (a.p2 % 8) # 4 THEN Return(SW_FUNC_NOT_SUPPORTED)
       ELSE IF a.p1 = 0 THEN Return(SW_WRONG_P1P2)
       ELSE LET r == read_record(current_file, a.p1)
            IN  IF r.exc = "IndexError" THEN Return(SW_RECORD_NOT_FOUND)
                ELSE IF r.exc # "" THEN Raise(r.exc)
                ELSE IF a.le = <<>> THEN Return(r.val \o SW_SUCCESS)
                ELSE LET length == IF a.le[1] = 0 THEN 256 ELSE a.le[1]
                     IN  Return(Slice(r.val, 0, length) \o SW_SUCCESS)

-----------------------------------------------------------------------------
(* Router: apdu/router.py *)

INS_SELECT_FILE == 164
INS_READ_BINARY == 176
INS_READ_RECORD == 178

\* keys of _HANDLERS
HandledIns == {INS_SELECT_FILE, INS_READ_BINARY, INS_READ_RECORD}

\* dispatch answering an INS without handler with 6A81
dispatch_func_not_supported(a) ==
    /\ phase = "run"
    /\ apdu = <<>>
    /\ apdu' = <<a>>
    /\ before' = <<current_df, current_file>>
    /\ IF a.ins = INS_SELECT_FILE THEN handle_select(a)
       ELSE IF a.ins = INS_READ_BINARY THEN handle_read_binary(a)
       ELSE IF a.ins = INS_READ_RECORD THEN handle_read_record(a)
       ELSE /\ Return(SW_FUNC_NOT_SUPPORTED)
            /\ UNCHANGED <<current_df, current_file>>
    /\ UNCHANGED <<phase, treeVars, stack, mf_root, codecVars, call>>

\* dispatch with a READ BINARY that consumes the content it returns
dispatch_consuming_read(a) ==
    /\ phase = "run"
    /\ apdu = <<>>
    /\ apdu' = <<a>>
    /\ before' = <<current_df, current_file>>
    /\ IF a.ins = INS_SELECT_FILE THEN handle_select(a)
       ELSE IF a.ins = INS_READ_BINARY THEN handle_read_binary(a)
       ELSE IF a.ins = INS_READ_RECORD THEN handle_read_record(a)
       ELSE /\ Return(SW_INS_NOT_SUPPORTED)
            /\ UNCHANGED <<current_df, current_file>>
    /\ content' = IF a.ins = INS_READ_BINARY /\ kind[current_file] = "TEF"
                  THEN [content EXCEPT ![current_file] = <<>>]
                  ELSE content
    /\ UNCHANGED <<phase, fid, kind, parent, children, records, stack,
                   mf_root, codecVars, call>>

\* dispatch, called by the server for a command when the response to the
\* command before has been sent
dispatch(a) ==
    /\ phase = "run"
    /\ apdu = <<>>
    /\ apdu' = <<a>>
    /\ before' = <<current_df, current_file>>
    /\ IF a.ins = INS_SELECT_FILE THEN handle_select(a)
       ELSE IF a.ins = INS_READ_BINARY THEN handle_read_binary(a)
       ELSE IF a.ins = INS_READ_RECORD THEN handle_read_record(a)
       ELSE /\ Return(SW_INS_NOT_SUPPORTED)
            /\ UNCHANGED <<current_df, current_file>>
    /\ UNCHANGED <<phase, treeVars, stack, mf_root, codecVars, call>>

-----------------------------------------------------------------------------
(* The commands a client sends in the card specification *)

\* the two data bytes that select fid f
FidBytes(f) == <<f \div 256, f % 256>>

\* a fid no profile uses
AbsentFid == 12032

SelectApdus ==
    {MkApdu(0, INS_SELECT_FILE, 0, 12, d, <<>>) :
        d \in {<<>>, <<63>>, <<63, 0, 0>>}
              \cup {FidBytes(f) : f \in Fids \cup {AbsentFid}}}
    \cup {MkApdu(0, INS_SELECT_FILE, 4, 0, FidBytes(MfFid), <<0>>)}

ReadBinaryApdus ==
    {MkApdu(0, INS_READ_BINARY, 0, o, <<>>, le) :
        o \in 0..4, le \in {<<>>, <<0>>, <<2>>}}
    \cup {MkApdu(0, INS_READ_BINARY, 1, 0, <<>>, <<2>>)}

ReadRecordApdus ==
    {MkApdu(0, INS_READ_RECORD, p, 4, <<>>, le) :
        p \in 0..3, le \in {<<>>, <<0>>, <<1>>, <<3>>}}
    \cup {MkApdu(0, INS_READ_RECORD, p, 2, <<>>, <<>>) : p \in 0..1}
    \cup {MkApdu(0, INS_READ_RECORD, 1, 12, <<>>, <<2>>)}

UnmappedApdus ==
    {MkApdu(0, 153, 0, 0, <<>>, <<>>),
     MkApdu(0, 153, 0, 4, FidBytes(MfFid), <<0>>),
     MkApdu(255, 165, 255, 255, <<1>>, <<255>>),
     MkApdu(128, 0, 1, 4, <<>>, <<2>>)}

Apdus ==
    SelectApdus \cup ReadBinaryApdus \cup ReadRecordApdus \cup UnmappedApdus

-----------------------------------------------------------------------------
(* TCP transport: transport/tcp_server.py.  A line is a sequence of        *)
(* characters, each a string; "<FF>" stands for a byte that is not ASCII.  *)
(* run_server starts one worker per connection and hands every worker the  *)
(* one CardContext; a worker handles a line (lines 50 to 67) without       *)
(* another worker handling a line in between.                              *)

\* the workers run_server has started
Workers == {1, 2}

HexDigits ==
    <<"0", "1", "2", "3", "4", "5", "6", "7",
      "8", "9", "A", "B", "C", "D", "E", "F">>

LowerDigits == <<"a", "b", "c", "d", "e", "f">>

Whitespace == {" ", "\r", "\t"}

NonAscii == {"<FF>"}

\* bytes.hex().upper() of the byte string bs
RECURSIVE Hex(_)
Hex(bs) ==
    IF bs = <<>> THEN <<>>
    ELSE <<HexDigits[(Head(bs) \div 16) + 1], HexDigits[(Head(bs) % 16) + 1]>>
             \o Hex(Tail(bs))

\* the value of a hexadecimal digit, -1 for any other character
DigitValue(ch) ==
    IF \E i \in 1..16 : HexDigits[i] = ch
    THEN (CHOOSE i \in 1..16 : HexDigits[i] = ch) - 1
    ELSE IF \E i \in 1..6 : LowerDigits[i] = ch
    THEN (CHOOSE i \in 1..6 : LowerDigits[i] = ch) + 9
    ELSE -1

\* bytes.strip(): without the whitespace at both ends
RECURSIVE strip(_)
strip(s) ==
    IF s = <<>> THEN s
    ELSE IF Head(s) \in Whitespace THEN strip(Tail(s))
    ELSE IF s[Len(s)] \in Whitespace THEN strip(SubSeq(s, 1, Len(s) - 1))
    ELSE s

\* bytes.decode("ascii"): [exc, val]
decode_ascii(s) ==
    IF \E i \in 1..Len(s) : s[i] \in NonAscii
    THEN [exc |-> "UnicodeDecodeError", val |-> <<>>]
    ELSE [exc |-> "", val |-> s]

\* bytes.fromhex: pairs of hexadecimal digits, with whitespace allowed
\* between the pairs: [exc, val]
RECURSIVE fromhex(_)
fromhex(s) ==
    IF s = <<>> THEN [exc |-> "", val |-> <<>>]
    ELSE IF Head(s) \in Whitespace THEN fromhex(Tail(s))
    ELSE IF Len(s) < 2 \/ DigitValue(s[1]) < 0 \/ DigitValue(s[2]) < 0
    THEN [exc |-> "ValueError", val |-> <<>>]
    ELSE LET rest == fromhex(SubSeq(s, 3, Len(s)))
         IN  IF rest.exc # "" THEN rest
             ELSE [exc |-> "",
                   val |-> <<16 * DigitValue(s[1]) + DigitValue(s[2])>>
                               \o rest.val]

\* the subclasses of ValueError among the exceptions of the model
ValueErrors == {"ValueError", "ApduParseError", "UnicodeDecodeError"}

\* b"\n" in buffer
HasNewline(b) == \E i \in 1..Len(b) : b[i] = "\n"

\* buffer.split(b"\n", 1): the position of the first newline
FirstNewline(b) ==
    CHOOSE i \in 1..Len(b) : b[i] = "\n" /\ \A j \in 1..(i - 1) : b[j] # "\n"

\* the complete lines of b that are not blank
RECURSIVE NonBlankLines(_)
NonBlankLines(b) ==
    IF ~HasNewline(b) THEN 0
    ELSE LET i == FirstNewline(b)
         IN  (IF strip(SubSeq(b, 1, i - 1)) = <<>> THEN 0 ELSE 1)
                 + NonBlankLines(SubSeq(b, i + 1, Len(b)))

\* chunk = conn.recv(4096); buffer += chunk, when the buffer holds no
\* complete line.  The chunk is one of chunks, while the connection has
\* had fewer than MaxLines non-blank lines; a line comes in two parts at
\* most
Recv(w, chunks) ==
    /\ phase = "run"
    /\ pc[w] = "loop"
    /\ ~HasNewline(buffer[w])
    /\ asked[w] < MaxLines
    /\ \E c \in chunks :
        /\ HasNewline(c) \/ buffer[w] = <<>>
        /\ buffer' = [buffer EXCEPT ![w] = @ \o c]
        /\ asked' = [asked EXCEPT ![w] = @ + NonBlankLines(buffer[w] \o c)]
    /\ UNCHANGED <<phase, treeVars, stack, ctxVars, callVars, codecVars, call,
                   pc, taken, reply, nsent, wire, selected, who>>

\* recv returns b"": the client has closed the connection and the worker
\* leaves its loop
Close(w) ==
    /\ phase = "run"
    /\ pc[w] = "loop"
    /\ ~HasNewline(buffer[w])
    /\ pc' = [pc EXCEPT ![w] = "closed"]
    /\ UNCHANGED <<phase, treeVars, stack, ctxVars, callVars, codecVars, call,
                   buffer, taken, reply, asked, nsent, wire, selected, who>>

\* raw_apdu = bytes.fromhex(line.decode("ascii")); apdu =
\* parse_apdu(raw_apdu): [exc, val]
decode_line(line) ==
    LET text == decode_ascii(line)
        raw_apdu == IF text.exc # "" THEN text ELSE fromhex(text.val)
    IN  IF raw_apdu.exc # "" THEN raw_apdu ELSE parse_apdu(raw_apdu.val)

\* the except clauses of _handle_client with ValueError missing: the
\* catch-all answers every exception
ResponseFor_catch_all(exc, resp) ==
    IF exc = "" THEN resp
    ELSE SW_FUNC_NOT_SUPPORTED

\* the except clauses of _handle_client: the response for what the try
\* block raised, or for what dispatch returned
ResponseFor(exc, resp) ==
    IF exc = "" THEN resp
    ELSE IF exc \in ValueErrors THEN SW_WRONG_LENGTH
    ELSE SW_FUNC_NOT_SUPPORTED

\* the handling of a line with a line that cannot be decoded dropped like
\* a blank one
TakeLine_skip_undecodable(w) ==
    /\ phase = "run"
    /\ pc[w] = "loop"
    /\ HasNewline(buffer[w])
    /\ LET i == FirstNewline(buffer[w])
           line == strip(SubSeq(buffer[w], 1, i - 1))
           cmd == decode_line(line)
       IN  /\ buffer' = [buffer EXCEPT ![w] = SubSeq(@, i + 1, Len(@))]
           /\ IF line = <<>> \/ cmd.exc # ""
              THEN UNCHANGED <<ctxVars, callVars, pc, taken, reply, selected,
                               who>>
              ELSE /\ \A v \in Workers : pc[v] # "send"
                   /\ pc' = [pc EXCEPT ![w] = "send"]
                   /\ taken' = [taken EXCEPT ![w] = line]
                   /\ IF cmd.exc # ""
                      THEN FALSE
                      ELSE /\ dispatch(cmd.val)
                           /\ reply' = [reply EXCEPT
                                 ![w] = ResponseFor(raised', response')]
                           /\ IF cmd.val.ins = INS_SELECT_FILE
                                 /\ raised' = "" /\ response' = SW_SUCCESS
                              THEN /\ selected' = [selected EXCEPT
                                                     ![w] = current_file']
                                   /\ who' = w
                              ELSE UNCHANGED <<selected, who>>
    /\ UNCHANGED <<phase, treeVars, stack, mf_root, codecVars, call, asked,
                   nsent, wire>>

\* line, buffer = buffer.split(b"\n", 1) and the handling of the line up to
\* sendall: a blank line is dropped, any other line is decoded, parsed and
\* dispatched, and what the try block returns or raises makes the response
TakeLine(w) ==
    /\ phase = "run"
    /\ pc[w] = "loop"
    /\ HasNewline(buffer[w])
    /\ LET i == FirstNewline(buffer[w])
           line == strip(SubSeq(buffer[w], 1, i - 1))
           cmd == decode_line(line)
       IN  /\ buffer' = [buffer EXCEPT ![w] = SubSeq(@, i + 1, Len(@))]
           /\ IF line = <<>>
              THEN UNCHANGED <<ctxVars, callVars, pc, taken, reply, selected,
                               who>>
              ELSE /\ \A v \in Workers : pc[v] # "send"
                   /\ pc' = [pc EXCEPT ![w] = "send"]
                   /\ taken' = [taken EXCEPT ![w] = line]
                   /\ IF cmd.exc # ""
                      THEN /\ raised' = cmd.exc
                           /\ before' = <<current_df, current_file>>
                           /\ reply' = [reply EXCEPT
                                           ![w] = ResponseFor(cmd.exc, <<>>)]
                           /\ UNCHANGED <<ctxVars, apdu, response, selected,
                                           who>>
                      ELSE /\ dispatch(cmd.val)
                           /\ reply' = [reply EXCEPT
                                 ![w] = ResponseFor(raised', response')]
                           /\ IF cmd.val.ins = INS_SELECT_FILE
                                 /\ raised' = "" /\ response' = SW_SUCCESS
                              THEN /\ selected' = [selected EXCEPT
                                                     ![w] = current_file']
                                   /\ who' = w
                              ELSE UNCHANGED <<selected, who>>
    /\ UNCHANGED <<phase, treeVars, stack, mf_root, codecVars, call, asked,
                   nsent, wire>>

\* the worker sends the response and resets the session to the MF
Send_reset(w) ==
    /\ phase = "run"
    /\ pc[w] = "send"
    /\ wire' = <<w, Hex(reply[w]) \o <<"\n">>>>
    /\ nsent' = [nsent EXCEPT ![w] = @ + 1]
    /\ pc' = [pc EXCEPT ![w] = "loop"]
    /\ taken' = [taken EXCEPT ![w] = <<>>]
    /\ reply' = [reply EXCEPT ![w] = <<>>]
    /\ apdu' = <<>>
    /\ response' = <<>>
    /\ raised' = ""
    /\ before' = <<>>
    /\ current_df' = mf_root
    /\ current_file' = mf_root
    /\ UNCHANGED <<phase, treeVars, stack, mf_root, codecVars, call, buffer,
                   asked, selected, who>>

\* conn.sendall(response.hex().upper().encode("ascii") + b"\n"), and back
\* to the top of the inner loop
Send(w) ==
    /\ phase = "run"
    /\ pc[w] = "send"
    /\ wire' = <<w, Hex(reply[w]) \o <<"\n">>>>
    /\ nsent' = [nsent EXCEPT ![w] = @ + 1]
    /\ pc' = [pc EXCEPT ![w] = "loop"]
    /\ taken' = [taken EXCEPT ![w] = <<>>]
    /\ reply' = [reply EXCEPT ![w] = <<>>]
    /\ apdu' = <<>>
    /\ response' = <<>>
    /\ raised' = ""
    /\ before' = <<>>
    /\ UNCHANGED <<phase, treeVars, stack, ctxVars, codecVars, call, buffer,
                   asked, selected, who>>

-----------------------------------------------------------------------------
(* Card specification: main loads the profile, creates the context and     *)
(* the server dispatches the commands of the clients.                      *)

NoTree ==
    /\ fid = <<>>
    /\ kind = <<>>
    /\ parent = <<>>
    /\ children = <<>>
    /\ content = <<>>
    /\ records = <<>>
    /\ stack = <<>>

NoContext == mf_root = 0 /\ current_df = 0 /\ current_file = 0
NoCall == apdu = <<>> /\ response = <<>> /\ raised = "" /\ before = <<>>
NoCodec == raw = <<>> /\ sent = <<>> /\ parsed = <<>>

\* no connection yet: every worker is at the top of its loop with an empty
\* buffer
NoNet ==
    /\ buffer = [w \in Workers |-> <<>>]
    /\ pc = [w \in Workers |-> "loop"]
    /\ taken = [w \in Workers |-> <<>>]
    /\ reply = [w \in Workers |-> <<>>]
    /\ asked = [w \in Workers |-> 0]
    /\ nsent = [w \in Workers |-> 0]
    /\ wire = <<>>
    /\ selected = [w \in Workers |-> 0]
    /\ who = 0

Init ==
    /\ phase = "load"
    /\ NoTree
    /\ NoContext
    /\ NoCall
    /\ NoCodec
    /\ NoNet
    /\ call = <<>>

LoadKinds == {"MF", "DF", "TEF", "LEF"}

LoadStep == BuildNode(MaxNodes, LoadKinds)

Command == \E a \in Apdus : dispatch(a) /\ UNCHANGED netVars

\* the server sends the response and goes on to the next command
SendResponse ==
    /\ phase = "run"
    /\ apdu # <<>>
    /\ apdu' = <<>>
    /\ response' = <<>>
    /\ raised' = ""
    /\ before' = <<>>
    /\ UNCHANGED <<phase, treeVars, stack, ctxVars, codecVars, call, netVars>>

Next == LoadStep \/ ReturnNode \/ from_mf \/ Command \/ SendResponse

Spec == Init /\ [][Next]_vars

\* the load alone
NextLoad == LoadStep \/ ReturnNode

SpecLoad == Init /\ [][NextLoad]_vars

-----------------------------------------------------------------------------
(* Lookup specification: the loader builds a profile and DF.find is called *)
(* on its containers.  DF.find only tells DFs from other nodes, so one     *)
(* kind of EF stands for the leaves.                                       *)

FindKinds == {"MF", "DF", "TEF"}

FindLoadStep == BuildNode(MaxFindNodes, FindKinds)

\* the call c.find(f) on a container of the loaded tree
FindCall ==
    /\ phase = "loaded"
    /\ call = <<>>
    /\ \E c \in {n \in Nodes : IsDF(n)}, f \in Fids :
           call' = <<c, f, find(c, f)>>
    /\ UNCHANGED <<phase, treeVars, stack, ctxVars, callVars, codecVars,
                   netVars>>

NextFind == FindLoadStep \/ ReturnNode \/ FindCall

SpecFind == Init /\ [][NextFind]_vars

\* the same on the profiles of up to MaxOrderNodes nodes
OrderLoadStep == BuildNode(MaxOrderNodes, FindKinds)

NextOrder == OrderLoadStep \/ ReturnNode \/ FindCall

SpecOrder == Init /\ [][NextOrder]_vars

-----------------------------------------------------------------------------
(* Tree construction specification: nodes are created by their             *)
(* constructors and DF.add_child is called on any container with any node, *)
(* as a caller of filesystem/nodes.py other than the loader may do.        *)

AddKinds == {"MF", "DF", "TEF"}

InitAdd ==
    /\ phase = "add"
    /\ NoTree
    /\ NoContext
    /\ NoCall
    /\ NoCodec
    /\ NoNet
    /\ call = <<>>

\* the constructors MF(fid, name), DF(fid, name), TransparentEF(fid, name,
\* content): a node without parent and without children.  The first node
\* is the MF
NewNode ==
    /\ phase = "add"
    /\ Len(fid) < MaxAddNodes
    /\ \E k \in AddKinds, f \in Fids :
        /\ IF Len(fid) = 0 THEN k = "MF" /\ f = MfFid ELSE k # "MF"
        /\ fid' = Append(fid, f)
        /\ kind' = Append(kind, k)
        /\ parent' = Append(parent, 0)
        /\ children' = Append(children, <<>>)
        /\ content' = Append(content,
                         IF k = "TEF" THEN ContentOf(Len(fid) + 1) ELSE <<>>)
        /\ records' = Append(records, <<>>)
    /\ UNCHANGED <<phase, stack, ctxVars, callVars, codecVars, call, netVars>>

\* the call c.add_child(n) for a container c and a node n
AddChildCall ==
    /\ phase = "add"
    /\ \E c \in {d \in Nodes : IsDF(d)}, n \in Nodes : add_child(c, n)
    /\ UNCHANGED <<phase, fid, kind, content, records, stack, ctxVars, apdu,
                   response, before, codecVars, call, netVars>>

NextAdd == NewNode \/ AddChildCall

SpecAdd == InitAdd /\ [][NextAdd]_vars

-----------------------------------------------------------------------------
(* Transport specifications: main loads a profile, creates the context and *)
(* runs the server; clients connect and send lines.                        *)

ServeKinds == {"MF", "TEF", "LEF"}

ServeLoadStep == BuildNode(MaxServeNodes, ServeKinds)

\* command bytes: SELECT by fid, READ BINARY from offset 0 with Le 0, READ
\* RECORD 1 in absolute mode without Le, an INS without handler
SelectRaw(f) == <<0, INS_SELECT_FILE, 0, 12, 2>> \o FidBytes(f)
ReadBinaryRaw == <<0, INS_READ_BINARY, 0, 0, 0>>
ReadRecordRaw == <<0, INS_READ_RECORD, 1, 4>>
UnmappedRaw == <<0, 153, 0, 0>>

GoodRaws ==
    {SelectRaw(f) : f \in Fids \cup {AbsentFid}}
    \cup {ReadBinaryRaw, ReadRecordRaw, UnmappedRaw}

\* bytes parse_apdu rejects: fewer than 4 bytes, Lc larger than the data,
\* two bytes after the data
RejectedRaws ==
    {<<0, INS_SELECT_FILE, 0>>,
     <<0, INS_SELECT_FILE, 0, 12, 2, 63>>,
     <<0, INS_SELECT_FILE, 0, 12, 1, 63, 0, 0>>}

\* SELECT of the MF in lower case with whitespace between the bytes
SpacedLine ==
    <<"0", "0", " ", "a", "4", "0", "0", "0", "c", "\t", "0", "2", "3", "f",
      "0", "0">>

GoodLines == {Hex(r) : r \in GoodRaws} \cup {SpacedLine}

RejectedLines == {Hex(r) : r \in RejectedRaws}

\* lines that are not hexadecimal: another letter, an odd number of
\* digits, whitespace inside a byte, a byte that is not ASCII
BadHexLines ==
    {<<"Z", "Z">>,
     <<"0", "0", "A">>,
     <<"0", " ", "0", "A", "4", "0", "0", "0", "0">>,
     <<"0", "0", "<FF>">>}

BlankLines == {<<>>, <<" ">>}

ConnLines == GoodLines \cup RejectedLines \cup BadHexLines \cup BlankLines

\* what one recv returns on the single connection: a line, a line ending
\* in CR LF, two lines, or a line in two parts
ConnChunks ==
    {l \o <<"\n">> : l \in ConnLines}
    \cup {Hex(ReadRecordRaw) \o <<"\r", "\n">>}
    \cup {a \o <<"\n">> \o b \o <<"\n">> :
             a \in {Hex(SelectRaw(28423)), <<"Z", "Z">>, <<" ">>},
             b \in {Hex(ReadBinaryRaw), Hex(<<0, INS_SELECT_FILE, 0>>), <<>>}}
    \cup {<<"0", "0", "B", "0">>, <<"0", "0", "0", "0", "0", "0", "\n">>}

\* one client
NextConn ==
    \/ ServeLoadStep
    \/ ReturnNode
    \/ from_mf
    \/ Recv(1, ConnChunks)
    \/ TakeLine(1)
    \/ Send(1)
    \/ Close(1)

SpecConn == Init /\ [][NextConn]_vars

\* the profiles of the shared card: Transparent EFs under the MF
SharedKinds == {"MF", "TEF"}

SharedLoadStep == BuildNode(MaxServeNodes, SharedKinds)

\* what one recv returns on the connections of the clients that share the
\* card: SELECT of a file or READ BINARY, a line at a time
SharedChunks ==
    {Hex(r) \o <<"\n">> :
        r \in {SelectRaw(f) : f \in Fids \ {MfFid}} \cup {ReadBinaryRaw}}

\* a client on every connection, none of which closes it
NextShared ==
    \/ SharedLoadStep
    \/ ReturnNode
    \/ from_mf
    \/ \E w \in Workers : Recv(w, SharedChunks) \/ TakeLine(w) \/ Send(w)

SpecShared == Init /\ [][NextShared]_vars

-----------------------------------------------------------------------------
(* Two clients send one SELECT each to the card they share.  The threads   *)
(* of their connections run handle_select on the one CardContext without a *)
(* lock, so they interleave between any two reads or writes of its         *)
(* attributes.  A worker stays at "send" when its SELECT has returned.     *)

MaxRaceNodes == 3

RaceKinds == {"MF", "DF", "TEF"}

RaceLoadStep == BuildNode(MaxRaceNodes, RaceKinds)

\* the lines of the clients, stripped: SELECT of a fid
RaceLines == {Hex(SelectRaw(f)) : f \in Fids}

\* SELECT commands served one after the other before the two clients send
\* theirs
RaceCommand ==
    /\ \A w \in Workers : pc[w] = "loop"
    /\ \E a \in SelectApdus : dispatch(a)
    /\ UNCHANGED netVars

\* worker w takes the line of a SELECT and runs handle_select up to its
\* first write to the context: the lookup reads current_df
TakeSelect(w) ==
    /\ phase = "run"
    /\ apdu = <<>>
    /\ pc[w] = "loop"
    /\ \E line \in RaceLines :
          LET a == decode_line(line).val
              f == a.data[1] * 256 + a.data[2]
              rel == find_under_current_df(f)
              node == IF rel = 0 THEN find_anywhere(f) ELSE rel
          IN  /\ taken' = [taken EXCEPT ![w] = line]
              /\ IF f = fid[mf_root]
                 THEN /\ pc' = [pc EXCEPT ![w] = "reset_df"]
                      /\ UNCHANGED <<selected, reply>>
                 ELSE IF node = 0
                 THEN /\ pc' = [pc EXCEPT ![w] = "send"]
                      /\ reply' = [reply EXCEPT ![w] = SW_FILE_NOT_FOUND]
                      /\ UNCHANGED selected
                 ELSE /\ pc' = [pc EXCEPT ![w] = "select_file"]
                      /\ selected' = [selected EXCEPT ![w] = node]
                      /\ UNCHANGED reply
    /\ before' = IF \A v \in Workers : pc[v] = "loop"
                 THEN <<current_df, current_file>>
                 ELSE before
    /\ UNCHANGED <<phase, treeVars, stack, ctxVars, apdu, response, raised,
                   codecVars, call, buffer, asked, nsent, wire, who>>

\* the worker's position changes and, when its SELECT returns, its reply is
\* 90 00
Advance(w, to) ==
    /\ pc' = [pc EXCEPT ![w] = to]
    /\ reply' = IF to = "send" THEN [reply EXCEPT ![w] = SW_SUCCESS]
                ELSE reply
    /\ UNCHANGED <<phase, treeVars, stack, mf_root, callVars, codecVars, call,
                   buffer, taken, asked, nsent, wire, selected, who>>

\* select_node: self.current_file = node
WriteCurrentFile(w) ==
    /\ pc[w] = "select_file"
    /\ current_file' = selected[w]
    /\ UNCHANGED current_df
    /\ Advance(w, IF IsDF(selected[w]) THEN "select_df" ELSE "send")

\* select_node: self.current_df = node
WriteCurrentDf(w) ==
    /\ pc[w] = "select_df"
    /\ current_df' = selected[w]
    /\ UNCHANGED current_file
    /\ Advance(w, "send")

\* reset_to_mf: self.current_df = self.mf_root
ResetCurrentDf(w) ==
    /\ pc[w] = "reset_df"
    /\ current_df' = mf_root
    /\ UNCHANGED current_file
    /\ Advance(w, "reset_file")

\* reset_to_mf: self.current_file = self.mf_root
ResetCurrentFile(w) ==
    /\ pc[w] = "reset_file"
    /\ current_file' = mf_root
    /\ UNCHANGED current_df
    /\ Advance(w, "send")

NextRace ==
    \/ RaceLoadStep
    \/ ReturnNode
    \/ from_mf
    \/ RaceCommand
    \/ SendResponse
    \/ \E w \in Workers :
          \/ TakeSelect(w)
          \/ WriteCurrentFile(w)
          \/ WriteCurrentDf(w)
          \/ ResetCurrentDf(w)
          \/ ResetCurrentFile(w)

SpecRace == Init /\ [][NextRace]_vars

-----------------------------------------------------------------------------
(* Parser specification: parse_apdu is called on a buffer of arbitrary     *)
(* bytes, or on the encoding of an Apdu.                                   *)

Bytes == 0..MaxByte

\* byte strings of length 0..n
RECURSIVE ByteStrings(_)
ByteStrings(n) ==
    IF n = 0 THEN {<<>>}
    ELSE LET shorter == ByteStrings(n - 1)
         IN  shorter \cup {Append(s, b) : s \in shorter, b \in Bytes}

\* the Apdus whose fields are bytes of the parser specification
CodecApdus ==
    {MkApdu(h[1], h[2], h[3], h[4], d, le) :
        h \in Bytes \X Bytes \X Bytes \X Bytes,
        d \in ByteStrings(MaxByte),
        le \in {<<>>} \cup {<<b>> : b \in Bytes}}

InitCodec ==
    /\ phase = "codec"
    /\ NoTree
    /\ NoContext
    /\ NoCall
    /\ NoCodec
    /\ NoNet
    /\ call = <<>>

\* one more byte of an arbitrary command buffer
RawByte ==
    /\ phase = "codec"
    /\ sent = <<>>
    /\ parsed = <<>>
    /\ Len(raw) < MaxRawLen
    /\ \E b \in Bytes : raw' = Append(raw, b)
    /\ UNCHANGED <<phase, treeVars, stack, ctxVars, callVars, sent, parsed,
                   call, netVars>>

\* the command buffer is the encoding of an Apdu
EncodeApdu ==
    /\ phase = "codec"
    /\ sent = <<>>
    /\ parsed = <<>>
    /\ raw = <<>>
    /\ \E a \in CodecApdus : sent' = <<a>> /\ raw' = Encode(a)
    /\ UNCHANGED <<phase, treeVars, stack, ctxVars, callVars, parsed, call,
                   netVars>>

\* the call parse_apdu(raw)
ParseCall ==
    /\ phase = "codec"
    /\ parsed = <<>>
    /\ parsed' = <<parse_apdu(raw)>>
    /\ UNCHANGED <<phase, treeVars, stack, ctxVars, callVars, raw, sent,
                   call, netVars>>

NextCodec == RawByte \/ EncodeApdu \/ ParseCall

SpecCodec == InitCodec /\ [][NextCodec]_vars

-----------------------------------------------------------------------------
(* Properties *)

LastApdu == apdu[1]
Dispatched == phase = "run" /\ apdu # <<>>

\* the last command is SELECT with the two data bytes of fid f
IsSelectOf(a, f) == a.ins = 164 /\ a.data = <<f \div 256, f % 256>>

ChildSet(n) == {children[n][i] : i \in 1..Len(children[n])}

\* all children of the nodes of S
ChildrenOf(S) == UNION {ChildSet(n) : n \in S}

\* the nodes of S and all nodes below them
RECURSIVE Below(_)
Below(S) == IF S = {} THEN {} ELSE S \cup Below(ChildrenOf(S))

\* c and all nodes below it
Subtree(c) == Below({c})

\* the nodes with fid f on the first level, from the level S down, that has
\* one
RECURSIVE ShallowestFrom(_, _)
ShallowestFrom(S, f) ==
    IF S = {} THEN {}
    ELSE LET M == {n \in S : fid[n] = f}
         IN  IF M # {} THEN M ELSE ShallowestFrom(ChildrenOf(S), f)

\* the nodes with fid f of minimal depth in the subtree of c
Shallowest(c, f) == ShallowestFrom({c}, f)

\* C1: every dispatch call returns (no exception escapes) a response of at
\* least two bytes whose last two bytes are one of the 11 status words.
C1_DispatchReturnsStatus ==
    Dispatched =>
        /\ raised = ""
        /\ Len(response) >= 2
        /\ Last2(response) \in SW_NAMES
        /\ Cardinality(SW_NAMES) = 11

\* a read answered with data, on a file selected before
C1_Witness ==
    /\ Dispatched
    /\ LastApdu.ins \in {176, 178}
    /\ Len(response) > 2
    /\ current_file # mf_root

\* C2: SELECT with the two bytes of the root's fid returns 90 00 and leaves
\* current DF and current file at the root, whatever was selected before.
C2_SelectRootResets ==
    [][(phase = "run" /\ apdu' # <<>> /\ IsSelectOf(apdu'[1], fid[mf_root]))
        => /\ response' = <<144, 0>>
           /\ current_df' = mf_root
           /\ current_file' = mf_root]_vars

\* the root has just been selected while an EF under another DF was
\* selected
C2_Witness ==
    /\ Dispatched
    /\ IsSelectOf(LastApdu, fid[mf_root])
    /\ response = <<144, 0>>
    /\ before[1] # mf_root
    /\ before[2] # before[1]
    /\ current_df = mf_root
    /\ current_file = mf_root

\* C3: SELECT of a fid other than the root's selects what current_df.find
\* yields whenever that is a node, also when mf_root.find yields another
\* node; what mf_root.find yields is selected only when current_df.find
\* yields nothing.
C3_RelativeLookupFirst ==
    [][(phase = "run" /\ apdu' # <<>>) =>
        \A f \in Fids \ {fid[mf_root]} :
            IsSelectOf(apdu'[1], f)
            => /\ find(current_df, f) # 0
                  => /\ current_file' = find(current_df, f)
                     /\ response' = <<144, 0>>
               /\ (find(current_df, f) = 0 /\ find(mf_root, f) # 0)
                  => current_file' = find(mf_root, f) /\ response' = <<144, 0>>
       ]_vars

\* under a current DF other than the MF, a node was selected that
\* current_df.find yields and mf_root.find does not
C3_Witness ==
    /\ Dispatched
    /\ LastApdu.ins = 164
    /\ response = <<144, 0>>
    /\ before[1] # mf_root
    /\ LastApdu.data = <<fid[current_file] \div 256, fid[current_file] % 256>>
    /\ find(before[1], fid[current_file]) = current_file
    /\ find(mf_root, fid[current_file]) \notin {0, current_file}

\* C4: the current DF is always a DF (or the MF), and a successful SELECT of
\* an EF makes it the current file and leaves the current DF as it was.
C4_CurrentDfIsContainer ==
    /\ [](phase = "run" => kind[current_df] \in {"MF", "DF"})
    /\ [][(phase = "run" /\ apdu' # <<>> /\ apdu'[1].ins = 164
           /\ response' = <<144, 0>>
           /\ kind[current_file'] \in {"TEF", "LEF"})
          => /\ current_df' = current_df
             /\ apdu'[1].data = <<fid[current_file'] \div 256,
                                  fid[current_file'] % 256>>]_vars

\* an EF has just been selected under a current DF that is not the MF
C4_Witness ==
    /\ Dispatched
    /\ LastApdu.ins = 164
    /\ response = <<144, 0>>
    /\ kind[current_file] \in {"TEF", "LEF"}
    /\ before[2] # current_file
    /\ before[1] # mf_root
    /\ current_df = before[1]

\* C5: a dispatch of anything but SELECT (READ BINARY, READ RECORD, an INS
\* without handler) leaves current DF and current file unchanged.
C5_OnlySelectChangesSession ==
    [][(phase = "run" /\ apdu' # <<>> /\ apdu'[1].ins # 164)
        => current_df' = current_df /\ current_file' = current_file]_vars

\* a read has returned data and left the selection as it was
C5_Witness ==
    /\ Dispatched
    /\ LastApdu.ins \in {176, 178}
    /\ Len(response) > 2
    /\ before = <<current_df, current_file>>
    /\ current_df # mf_root

\* C6: an Apdu whose INS is none of A4, B0, B2 is answered with exactly
\* 6D 00, whatever its other fields and whatever is selected.
C6_UnknownInsNotSupported ==
    (Dispatched /\ LastApdu.ins \notin {164, 176, 178})
        => response = <<109, 0>> /\ raised = ""

\* an INS without handler was dispatched with data and Le, on a selected EF
C6_Witness ==
    /\ Dispatched
    /\ LastApdu.ins \notin {164, 176, 178}
    /\ LastApdu.data # <<>>
    /\ LastApdu.le # <<>>
    /\ kind[current_file] \in {"TEF", "LEF"}
    /\ response = <<109, 0>>

\* the buffers the claim says parse_apdu accepts
Accepted(b) ==
    \/ Len(b) = 4
    \/ Len(b) = 5
    \/ Len(b) >= 6 /\ 5 + b[5] <= Len(b) /\ Len(b) <= 6 + b[5]

\* C7: parse_apdu accepts a buffer exactly when its length is 4, or 5, or at
\* least 6 with 5+lc <= length <= 6+lc for lc the byte at offset 4, and
\* raises ApduParseError on every other buffer; an accepted buffer of 4
\* bytes gives lc 0, no data, no Le; one of 5 bytes gives lc 0, no data and
\* Le the last byte; one of 5+lc bytes gives the lc data bytes and no Le;
\* one of 6+lc bytes the same data and Le the last byte; the header bytes
\* are cla, ins, p1, p2.
C7_ParseCases ==
    parsed # <<>> =>
        LET r == parsed[1]
            n == Len(raw)
        IN  /\ (r.exc = "") <=> Accepted(raw)
            /\ r.exc \in {"", "ApduParseError"}
            /\ r.exc = "" =>
                /\ <<r.val.cla, r.val.ins, r.val.p1, r.val.p2>>
                       = SubSeq(raw, 1, 4)
                /\ n = 4 =>
                    r.val.lc = 0 /\ r.val.data = <<>> /\ r.val.le = <<>>
                /\ n = 5 =>
                    /\ r.val.lc = 0
                    /\ r.val.data = <<>>
                    /\ r.val.le = <<raw[5]>>
                /\ (n >= 6 /\ n = 5 + raw[5]) =>
                    /\ r.val.lc = raw[5]
                    /\ r.val.data = SubSeq(raw, 6, n)
                    /\ r.val.le = <<>>
                /\ (n >= 6 /\ n = 6 + raw[5]) =>
                    /\ r.val.lc = raw[5]
                    /\ r.val.data = SubSeq(raw, 6, n - 1)
                    /\ r.val.le = <<raw[n]>>

\* an arbitrary buffer with data and Le was parsed
C7_Witness ==
    /\ parsed # <<>>
    /\ sent = <<>>
    /\ Len(raw) >= 7
    /\ Len(raw) = 6 + raw[5]
    /\ parsed[1].exc = ""
    /\ parsed[1].val.le = <<raw[Len(raw)]>>

\* C8: parsing the encoding of an Apdu gives back that Apdu, and encoding
\* the parsed Apdu gives back the buffer byte for byte.
C8_EncodeParseRoundTrip ==
    (sent # <<>> /\ parsed # <<>>) =>
        /\ parsed[1].exc = ""
        /\ parsed[1].val = sent[1]
        /\ Encode(parsed[1].val) = raw

\* the encoding of an Apdu without data and with Le (5 bytes) was parsed
C8_Witness ==
    /\ sent # <<>>
    /\ parsed # <<>>
    /\ sent[1].data = <<>>
    /\ sent[1].le # <<>>
    /\ Len(raw) = 5
    /\ parsed[1].exc = ""

\* C9: add_child of a node whose fid is already a key of the children of
\* the container raises ValueError and changes neither the children of any
\* container nor the parent of any node.
C9_DuplicateAddChangesNothing ==
    [][(phase = "load" /\ Len(stack) >= 2 /\ Len(stack') < Len(stack)
        /\ fid[stack[Len(stack)]] \in ChildFids(stack[Len(stack) - 1]))
       => /\ raised' = "ValueError"
          /\ children' = children
          /\ parent' = parent
          /\ Len(children'[stack[Len(stack) - 1]])
                 = Len(children[stack[Len(stack) - 1]])]_vars

\* the load has ended on the add_child of a node whose fid a child of the
\* container has
C9_Witness ==
    /\ phase = "failed"
    /\ raised = "ValueError"
    /\ stack # <<>>
    /\ \E n \in Nodes \ {1} :
        /\ parent[n] = 0
        /\ \A i \in 1..Len(stack) : stack[i] # n
        /\ fid[n] \in ChildFids(stack[Len(stack)])
        /\ n \notin ChildSet(stack[Len(stack)])

\* C10 as claimed: c.find(f) returns a node of minimal depth below c among
\* the nodes with fid f in the subtree of c.
C10_ShallowestMatch ==
    call # <<>> =>
        (Shallowest(call[1], call[2]) # {}
            => call[3] \in Shallowest(call[1], call[2]))

\* C10 amended: c.find(f) returns a node with fid f of the subtree of c
\* whenever there is one (and nothing otherwise), and a node of minimal
\* depth whenever c itself or a direct child of c has fid f.
C10_ShallowestAmongSelfAndChildren ==
    call # <<>> =>
        LET c == call[1]
            f == call[2]
            hit == call[3]
        IN  /\ (Shallowest(c, f) = {}) <=> (hit = 0)
            /\ hit # 0 => fid[hit] = f /\ hit \in Subtree(c)
            /\ (\E n \in {c} \cup ChildSet(c) : fid[n] = f)
                   => hit \in Shallowest(c, f)

\* find returned a direct child although a DF inserted before that child
\* has a node with the fid below it
C10_Witness ==
    /\ call # <<>>
    /\ call[3] # 0
    /\ call[3] \in ChildSet(call[1])
    /\ \E i, j \in 1..Len(children[call[1]]) :
        /\ i < j
        /\ children[call[1]][j] = call[3]
        /\ \E n \in Subtree(children[call[1]][i]) : fid[n] = call[2]

\* the file that was current when the last command was dispatched
FileBefore == before[2]

\* python min
Min(a, b) == IF a < b THEN a ELSE b

\* the length a read takes from Le
LengthOf(le) == IF le[1] = 0 THEN 256 ELSE le[1]

\* C11: READ BINARY with Le on a current Transparent EF of n bytes, with
\* offset p1*256+p2 and length 256 for Le 0 and Le otherwise: for offset <= n
\* the response is content[offset .. min(offset+length, n)) followed by
\* 90 00 (empty data at offset n, a window over the end cut at the end);
\* for offset > n it is exactly 6B 00.
C11_ReadBinaryWindow ==
    (Dispatched /\ LastApdu.ins = 176 /\ LastApdu.le # <<>>
        /\ kind[FileBefore] = "TEF")
    => LET c == content[FileBefore]
           n == Len(c)
           offset == LastApdu.p1 * 256 + LastApdu.p2
           end == Min(offset + LengthOf(LastApdu.le), n)
       IN  /\ raised = ""
           /\ offset <= n =>
                 response = [i \in 1..(end - offset) |-> c[offset + i]]
                                \o <<144, 0>>
           /\ offset = n => response = <<144, 0>>
           /\ offset > n => response = <<107, 0>>

\* a READ BINARY from inside the content whose window ran over the end was
\* answered with the bytes up to the end
C11_Witness ==
    /\ Dispatched
    /\ LastApdu.ins = 176
    /\ LastApdu.le # <<>>
    /\ kind[FileBefore] = "TEF"
    /\ LastApdu.p2 > 0
    /\ LastApdu.p2 < Len(content[FileBefore])
    /\ LastApdu.p2 + LengthOf(LastApdu.le) > Len(content[FileBefore])
    /\ Len(response) = Len(content[FileBefore]) - LastApdu.p2 + 2
    /\ Last2(response) = <<144, 0>>

\* s is the first bytes of t
IsPrefix(s, t) == Len(s) <= Len(t) /\ s = SubSeq(t, 1, Len(s))

\* the data part of a response
DataOf(r) == SubSeq(r, 1, Len(r) - 2)

\* C12: READ RECORD in absolute mode (p2 % 8 = 4) on a current Linear
\* Fixed EF of k records: p1 = 0 gives exactly 6B 00, p1 in 1..k gives
\* record p1 (the whole record without Le) followed by 90 00, p1 > k gives
\* exactly 6A 83; the two failure statuses differ.
C12_ReadRecordNumber ==
    (Dispatched /\ LastApdu.ins = 178 /\ LastApdu.p2 % 8 = 4
        /\ kind[FileBefore] = "LEF")
    => LET k == Len(records[FileBefore])
           p == LastApdu.p1
       IN  /\ raised = ""
           /\ p = 0 => response = <<107, 0>>
           /\ p \in 1..k =>
                 /\ Len(response) >= 2
                 /\ Last2(response) = <<144, 0>>
                 /\ IsPrefix(DataOf(response), records[FileBefore][p])
                 /\ LastApdu.le = <<>> =>
                       response = records[FileBefore][p] \o <<144, 0>>
           /\ p > k => response = <<106, 131>>
           /\ <<107, 0>> # <<106, 131>>

\* the record after the last one of a file with records was asked for
C12_Witness ==
    /\ Dispatched
    /\ LastApdu.ins = 178
    /\ LastApdu.p2 % 8 = 4
    /\ kind[FileBefore] = "LEF"
    /\ records[FileBefore] # <<>>
    /\ LastApdu.p1 = Len(records[FileBefore]) + 1
    /\ response = <<106, 131>>

\* C13: no dispatched command, succeeding or failing, changes the tree:
\* nodes, fids, kinds, parents, children, contents and records stay as the
\* loader built them.
C13_CommandsLeaveTree ==
    [][phase = "run" =>
        /\ fid' = fid
        /\ kind' = kind
        /\ parent' = parent
        /\ children' = children
        /\ content' = content
        /\ records' = records]_vars

\* a READ BINARY has returned the whole content of a file below a DF, and
\* the content is still there
C13_Witness ==
    /\ Dispatched
    /\ LastApdu.ins = 176
    /\ kind[current_file] = "TEF"
    /\ content[current_file] # <<>>
    /\ response = content[current_file] \o <<144, 0>>
    /\ parent[current_file] = current_df

\* C18: a successful READ RECORD of record r answers r followed by 90 00
\* when Le is absent, and the first min(length, len(r)) bytes of r followed
\* by 90 00 when Le is present (length 256 for Le 0, Le otherwise): a length
\* larger than the record gives the whole record, never an error.
C18_ReadRecordLength ==
    (Dispatched /\ LastApdu.ins = 178 /\ LastApdu.p2 % 8 = 4
        /\ kind[FileBefore] = "LEF"
        /\ LastApdu.p1 \in 1..Len(records[FileBefore]))
    => LET r == records[FileBefore][LastApdu.p1]
           le == LastApdu.le
       IN  /\ le = <<>> => response = r \o <<144, 0>>
           /\ le # <<>> =>
                 response = SubSeq(r, 1, Min(LengthOf(le), Len(r)))
                                \o <<144, 0>>
           /\ (le # <<>> /\ LengthOf(le) >= Len(r)) =>
                 response = r \o <<144, 0>>

\* a record was read with an Le larger than the record and came back whole
C18_Witness ==
    /\ Dispatched
    /\ LastApdu.ins = 178
    /\ kind[FileBefore] = "LEF"
    /\ LastApdu.p1 \in 1..Len(records[FileBefore])
    /\ LastApdu.le # <<>>
    /\ LastApdu.le[1] > Len(records[FileBefore][LastApdu.p1])
    /\ response = records[FileBefore][LastApdu.p1] \o <<144, 0>>

\* C19: the first failing check decides: READ BINARY on a current file that
\* is not a Transparent EF gives 69 86 also without Le; READ RECORD on a
\* current file that is not a Linear Fixed EF gives 69 86 for every p1 and
\* p2; READ RECORD on a Linear Fixed EF with p2 % 8 # 4 gives 6A 81 also
\* for p1 = 0; SELECT without data gives 67 00 and with data of a length
\* other than 2 gives 6A 81, and the selection stays as it was.
C19_FirstCheckDecides ==
    Dispatched =>
        LET a == LastApdu
        IN  /\ (a.ins = 176 /\ kind[FileBefore] # "TEF")
                  => response = <<105, 134>>
            /\ (a.ins = 178 /\ kind[FileBefore] # "LEF")
                  => response = <<105, 134>>
            /\ (a.ins = 178 /\ kind[FileBefore] = "LEF" /\ a.p2 % 8 # 4)
                  => response = <<106, 129>>
            /\ (a.ins = 164 /\ (a.lc = 0 \/ a.data = <<>>))
                  => response = <<103, 0>>
                     /\ before = <<current_df, current_file>>
            /\ (a.ins = 164 /\ Len(a.data) \notin {0, 2})
                  => response = <<106, 129>>
                     /\ before = <<current_df, current_file>>

\* READ RECORD with record number 0 in a mode other than absolute, on a
\* Linear Fixed EF, was answered with 6A 81
C19_Witness ==
    /\ Dispatched
    /\ LastApdu.ins = 178
    /\ kind[FileBefore] = "LEF"
    /\ LastApdu.p1 = 0
    /\ LastApdu.p2 % 8 # 4
    /\ response = <<106, 129>>

\* the positions of the DF children of c with a node of fid f in their
\* subtree
Holders(c, f) ==
    {i \in 1..Len(children[c]) :
        /\ IsDF(children[c][i])
        /\ \E n \in Subtree(children[c][i]) : fid[n] = f}

\* the first of a non-empty set of positions
First(S) == CHOOSE i \in S : \A j \in S : i <= j

\* C17: c.find(f) is c when c has fid f; else the direct child with fid f
\* when there is one; else what find(f) gives on the first DF child, in
\* insertion order, that has a node with fid f in its subtree; and nothing
\* exactly when no node of the subtree of c has fid f.
C17_FindOrder ==
    call # <<>> =>
        LET c == call[1]
            f == call[2]
            hit == call[3]
            direct == {n \in ChildSet(c) : fid[n] = f}
        IN  /\ fid[c] = f => hit = c
            /\ (fid[c] # f /\ direct # {}) => hit \in direct
            /\ (fid[c] # f /\ direct = {} /\ Holders(c, f) # {}) =>
                  LET first == children[c][First(Holders(c, f))]
                  IN  /\ hit \in Subtree(first)
                      /\ fid[hit] = f
                      /\ hit = find(first, f)
            /\ (hit = 0) <=> (\A n \in Subtree(c) : fid[n] # f)

\* find returned a node from below the first of two DF children that both
\* have the fid below them
C17_Witness ==
    /\ call # <<>>
    /\ call[3] # 0
    /\ call[3] \notin {call[1]} \cup ChildSet(call[1])
    /\ Cardinality(Holders(call[1], call[2])) >= 2
    /\ call[3] \in
           Subtree(children[call[1]][First(Holders(call[1], call[2]))])

\* the containers that hold node n in their children
Owners(n) == {c \in Nodes : n \in ChildSet(c)}

\* C16 as claimed: after any add_child calls, every node that was added to
\* a container (and is not the root) is held by exactly one container,
\* which is its parent, and the parent references lead from every node to
\* None without coming back to a node.
C16_SingleOwnerNoCycle ==
    phase = "add" =>
        /\ \A n \in Nodes \ {1} :
              (Owners(n) # {} \/ parent[n] # 0)
                  => Owners(n) = {parent[n]}
        /\ \A n \in Nodes : path_str_returns(n)

\* a line of whitespace only
IsBlank(l) == \A i \in 1..Len(l) : l[i] \in {" ", "\r", "\t"}

\* the complete lines of b that are not blank and still to be handled
RECURSIVE Pending(_)
Pending(b) ==
    IF \A i \in 1..Len(b) : b[i] # "\n" THEN 0
    ELSE LET i == CHOOSE k \in 1..Len(b) :
                      b[k] = "\n" /\ \A j \in 1..(k - 1) : b[j] # "\n"
         IN  (IF IsBlank(SubSeq(b, 1, i - 1)) THEN 0 ELSE 1)
                 + Pending(SubSeq(b, i + 1, Len(b)))

\* 1 while worker w has a response to send
InFlight(w) == IF pc[w] = "send" THEN 1 ELSE 0

\* C14: on a connection every non-blank line received gets exactly one
\* response line (the responses sent, the one about to be sent and the
\* lines waiting in the buffer add up to the lines received), the worker
\* answers the first line of its buffer and then sends the response to
\* that line before it takes another, and a response is a status word,
\* possibly after data, whatever the line was.
C14_OneResponsePerLine ==
    /\ [](\A w \in Workers :
            /\ nsent[w] + InFlight(w) + Pending(buffer[w]) = asked[w]
            /\ pc[w] = "send" =>
                  /\ ~IsBlank(taken[w])
                  /\ Len(reply[w]) >= 2
                  /\ Last2(reply[w]) \in SW_NAMES)
    /\ [][\A w \in Workers :
            /\ (pc[w] = "loop" /\ pc'[w] = "send") =>
                  \E i \in 1..Len(buffer[w]) :
                      /\ buffer[w][i] = "\n"
                      /\ \A j \in 1..(i - 1) : buffer[w][j] # "\n"
                      /\ taken'[w] = strip(SubSeq(buffer[w], 1, i - 1))
                      /\ buffer'[w] = SubSeq(buffer[w], i + 1, Len(buffer[w]))
            /\ pc[w] = "send" =>
                  /\ buffer'[w] = buffer[w]
                  /\ pc'[w] \in {"send", "loop"}
                  /\ pc'[w] = "loop" =>
                        /\ wire' = <<w, Hex(reply[w]) \o <<"\n">>>>
                        /\ nsent'[w] = nsent[w] + 1
            /\ nsent'[w] # nsent[w] => pc[w] = "send"]_vars

\* the worker has answered a line that is not hexadecimal with 6700 and is
\* about to answer the READ BINARY that came in the same chunk
C14_Witness ==
    /\ pc[1] = "send"
    /\ nsent[1] = 1
    /\ asked[1] = 2
    /\ wire = <<1, <<"6", "7", "0", "0", "\n">>>>
    /\ taken[1] = Hex(ReadBinaryRaw)
    /\ apdu # <<>>
    /\ Last2(reply[1]) \in SW_NAMES

\* C20: a line that is not hexadecimal, or whose bytes parse_apdu rejects
\* (fewer than 4 bytes, Lc larger than the data, more than one byte after
\* the data), is answered with exactly 67 00 and leaves current DF and
\* current file as they were; an exception that escapes dispatch is
\* answered with 6A 81.
C20_BadLineWrongLength ==
    \A w \in Workers :
        pc[w] = "send" =>
            /\ taken[w] \in BadHexLines \cup RejectedLines =>
                  /\ reply[w] = <<103, 0>>
                  /\ apdu = <<>>
                  /\ before = <<current_df, current_file>>
            /\ (apdu # <<>> /\ raised # "") => reply[w] = <<106, 129>>

\* with an EF selected, a line whose Lc is larger than its data was taken
\* and is about to be answered with 6700
C20_Witness ==
    /\ pc[1] = "send"
    /\ taken[1] = Hex(<<0, 164, 0, 12, 2, 63>>)
    /\ reply[1] = <<103, 0>>
    /\ raised = "ApduParseError"
    /\ current_file # mf_root
    /\ before = <<current_df, current_file>>
    /\ nsent[1] = 1

\* what READ BINARY from offset 0 with Le 0 gives on node n
ReadAnswer(n) ==
    IF kind[n] = "TEF" THEN content[n] \o <<144, 0>> ELSE <<105, 134>>

\* C15: the workers share one session: the current file is the node of
\* the last successful SELECT of any worker, and the READ BINARY of a
\* worker is answered from that node, also when another worker selected it
\* after this worker's own SELECT.
C15_SharedSession ==
    phase = "run" =>
        /\ current_file = IF who = 0 THEN mf_root ELSE selected[who]
        /\ \A w \in Workers :
              (pc[w] = "send" /\ apdu # <<>> /\ apdu[1].ins = 176)
                  => reply[w] = ReadAnswer(current_file)

\* worker a selected X, worker b then selected Y, and the READ BINARY that
\* a sent next is answered from Y with something else than X would give
C15_Witness ==
    \E a, b \in Workers :
        /\ a # b
        /\ pc[a] = "send"
        /\ apdu # <<>>
        /\ apdu[1].ins = 176
        /\ asked[a] = 2
        /\ nsent[a] = 1
        /\ selected[a] # 0
        /\ who = b
        /\ selected[b] \notin {0, selected[a]}
        /\ current_file = selected[b]
        /\ reply[a] = ReadAnswer(selected[b])
        /\ reply[a] # ReadAnswer(selected[a])

\* C23: in every state of the session current_file is current_df or a
\* leaf (a current file that is a container is the current DF), and both
\* are nodes of the tree below the root of the session.
C23_FileIsDfOrLeaf ==
    phase = "run" =>
        /\ kind[current_file] \in {"MF", "DF"} => current_file = current_df
        /\ current_file = current_df \/ kind[current_file] \in {"TEF", "LEF"}
        /\ current_file \in Subtree(mf_root)
        /\ current_df \in Subtree(mf_root)

\* a DF below the MF has just been selected while another container was
\* the current DF, and is now current DF and current file
C23_Witness ==
    /\ Dispatched
    /\ LastApdu.ins = 164
    /\ response = <<144, 0>>
    /\ kind[current_file] = "DF"
    /\ current_df = current_file
    /\ before[1] # current_df
    /\ before[2] # before[1]

\* C24: a SELECT answered with anything but 90 00 (67 00 without data,
\* 6A 81 with data that is not 2 bytes, 6A 82 with a fid found neither
\* under the current DF nor from the MF) leaves current DF and current file
\* as they were.
C24_FailedSelectKeepsSelection ==
    (Dispatched /\ LastApdu.ins = 164 /\ response # <<144, 0>>) =>
        /\ before = <<current_df, current_file>>
        /\ response \in {<<103, 0>>, <<106, 129>>, <<106, 130>>}
        /\ response = <<103, 0>> <=> LastApdu.data = <<>>
        /\ response = <<106, 129>> <=> Len(LastApdu.data) \notin {0, 2}
        /\ response = <<106, 130>> =>
              /\ Len(LastApdu.data) = 2
              /\ \A n \in Subtree(mf_root) :
                    fid[n] # LastApdu.data[1] * 256 + LastApdu.data[2]

\* with an EF selected under a DF that is not the MF, a SELECT of a fid no
\* node has was answered with 6A 82 and the selection is as it was
C24_Witness ==
    /\ Dispatched
    /\ LastApdu.ins = 164
    /\ response = <<106, 130>>
    /\ before = <<current_df, current_file>>
    /\ current_df # mf_root
    /\ kind[current_file] \in {"TEF", "LEF"}

\* the sessions a finite sequence of SELECT commands leads to from the
\* sessions of S
RECURSIVE Closure(_)
Closure(S) ==
    LET T == S \cup {SelectStep(s, f) : s \in S, f \in Fids}
    IN  IF T = S THEN S ELSE Closure(T)

\* the nodes some finite sequence of SELECT commands makes the current
\* file, from the session from_mf makes
Selectable == {s[2] : s \in Closure({<<mf_root, mf_root>>})}

\* the session is as from_mf made it and no command is being served
Fresh ==
    /\ phase = "run"
    /\ apdu = <<>>
    /\ current_df = mf_root
    /\ current_file = mf_root

\* n and the nodes above it
RECURSIVE PathTo(_)
PathTo(n) == IF n = 0 THEN {} ELSE {n} \cup PathTo(parent[n])

\* n is below the root and has the fid of the root or of its parent
Barred(n) ==
    /\ n # mf_root
    /\ fid[n] = fid[mf_root] \/ fid[n] = fid[parent[n]]

\* C21 as stated: whatever the tree loaded, every node of it is the
\* current file after some finite sequence of SELECT commands.
C21_EveryNodeSelectable ==
    Fresh => Selectable = Subtree(mf_root)

\* C21: a node is the current file after some finite sequence of SELECT
\* commands when neither it nor a node above it has, below the root, the
\* fid of the root or of its own parent; a node that has the fid of the
\* root or of its parent never is.  A SELECT with 2 data bytes moves the
\* session as SelectStep says.
C21_SelectableNodes ==
    /\ Fresh =>
          \A n \in Subtree(mf_root) :
              /\ (\A a \in PathTo(n) : ~Barred(a)) => n \in Selectable
              /\ Barred(n) => n \notin Selectable
    /\ (Dispatched /\ LastApdu.ins = 164 /\ Len(LastApdu.data) = 2) =>
          <<current_df, current_file>> =
              SelectStep(before,
                         LastApdu.data[1] * 256 + LastApdu.data[2])
    /\ phase = "run" => ~Barred(current_file)

\* a node under a DF below the MF is the current file while a child of the
\* MF has the same fid
C21_Witness ==
    /\ Dispatched
    /\ LastApdu.ins = 164
    /\ response = <<144, 0>>
    /\ parent[current_file] \notin {0, mf_root}
    /\ \E m \in ChildSet(mf_root) : fid[m] = fid[current_file]
    /\ current_file \in Selectable

\* the fid of the SELECT worker w has taken
TakenFid(w) ==
    LET a == decode_line(taken[w]).val
    IN  a.data[1] * 256 + a.data[2]

\* the session after the SELECT of v and then that of w, from the session s
Serial(s, v, w) == SelectStep(SelectStep(s, TakenFid(v)), TakenFid(w))

\* both workers have taken a SELECT and both calls have returned
BothReturned == phase = "run" /\ \A w \in Workers : pc[w] = "send"

\* C22: when the SELECTs of the two workers on the shared session have
\* both returned, <<current_df, current_file>> is what one of the two
\* serial orders of these SELECTs gives from the session they started on.
C22_SerialOutcome ==
    BothReturned =>
        <<current_df, current_file>> \in
            {Serial(before, 1, 2), Serial(before, 2, 1)}

====
